---------------------------- MODULE Spec2Model ----------------------------
(***************************************************************************)
(* A state-machine model of absolutezero.py: dice / mnemonic / password    *)
(* seed entry, the main program flow with its exits, and the restore ->    *)
(* start -> sign(xN) -> stop orchestration of the external wallet program  *)
(* around the temporary wallet file.                                       *)
(*                                                                         *)
(* Text is modelled as sequences of character codes (ord values), so the   *)
(* range tests of the key handlers and the string slicing of the file      *)
(* naming are computed as the code computes them.                          *)
(***************************************************************************)
EXTENDS Integers, Sequences, FiniteSets, TLC

(***************************************************************************)
(* Bounds of the model.  The entropy configuration is scaled down from     *)
(* 50 rolls / 128 bits / 32 hex digits, keeping 4 bits per hex digit.      *)
(***************************************************************************)
minDiceRolls == 4

targetEntropyHex == 2

targetEntropyBits == 4 * targetEntropyHex

MaxPasswordLen == 2

MaxDirEntries == 2

\* number of words of a phrase (12 in the source), and the longest word
\* buffer the model lets the user type
kMnemonicWords == 3

MaxWordsLen == 2 * kMnemonicWords - 1

(***************************************************************************)
(* Program constants (file naming, lines 153-159) as character codes.      *)
(***************************************************************************)
kTxnFileExtension == <<46, 116, 120, 110>>

kUnsignedTxnFileBase == <<117, 110, 115, 105, 103, 110, 101, 100>>

kSignedTxnFile_success == <<115, 105, 103, 110, 101, 100, 45, 115, 117, 99, 99, 101, 115, 115>>

kSignedTxnFile_failure == <<115, 105, 103, 110, 101, 100, 45, 102, 97, 105, 108, 117, 114, 101>>

kNumAddressesToShow == 5

(***************************************************************************)
(* Text helpers.                                                           *)
(***************************************************************************)
Empty == << >>

\* str.lower() / str.upper() on a sequence of character codes
LowerCodes(s) == [i \in DOMAIN s |-> IF s[i] >= 65 /\ s[i] <= 90 THEN s[i] + 32 ELSE s[i]]

UpperCodes(s) == [i \in DOMAIN s |-> IF s[i] >= 97 /\ s[i] <= 122 THEN s[i] - 32 ELSE s[i]]

\* s[:n]
Take(s, n) == SubSeq(s, 1, IF n < Len(s) THEN n ELSE Len(s))

\* s[n:]
Drop(s, n) == SubSeq(s, n + 1, Len(s))

\* s[:-1]
DropLast(s) == SubSeq(s, 1, Len(s) - 1)

\* s.startswith(p)
StartsWith(s, p) == Len(s) >= Len(p) /\ SubSeq(s, 1, Len(p)) = p

RECURSIVE Pow(_, _)
Pow(b, e) == IF e = 0 THEN 1 ELSE b * Pow(b, e - 1)

\* one digit of "%X"
HexDigitUpper(d) == IF d < 10 THEN 48 + d ELSE 55 + d

\* "%X" % n : upper-case hex without leading zeros ("0" for 0)
RECURSIVE FormatHexUpper(_)
FormatHexUpper(n) ==
    IF n < 16 THEN <<HexDigitUpper(n)>>
    ELSE Append(FormatHexUpper(n \div 16), HexDigitUpper(n % 16))

\* "%0wX" % n : zero padded on the left to at least w characters
RECURSIVE PadZeros(_, _)
PadZeros(s, w) == IF Len(s) >= w THEN s ELSE PadZeros(<<48>> \o s, w)


\* a variant that leaves out the padding
FormatHexUpperWidth_NoPad(n, w) == FormatHexUpper(n)

FormatHexUpperWidth(n, w) == PadZeros(FormatHexUpper(n), w)

\* int(s, 6) on a string of the characters '0'..'5'
RECURSIVE IntBase6(_)
IntBase6(s) ==
    IF Len(s) = 0 THEN 0
    ELSE 6 * IntBase6(DropLast(s)) + (s[Len(s)] - 48)

\* A hex text value is either literal characters or (part of) a SHA-256 hex
\* digest, which is kept symbolic: the digest of a source is determined by
\* the source and by nothing else, and different sources give different
\* digests.
Lit(s) == [kind |-> "lit", s |-> s]

\* str.lower() / str.upper() of a hex text value
LowerText(v) ==
    IF v.kind = "lit" THEN Lit(LowerCodes(v.s)) ELSE [v EXCEPT !.upper = FALSE]

UpperText(v) ==
    IF v.kind = "lit" THEN Lit(UpperCodes(v.s)) ELSE [v EXCEPT !.upper = TRUE]

\* len(v)
TextLen(v) == IF v.kind = "lit" THEN Len(v.s) ELSE v.len

\* v[:n]
TakeText(v, n) ==
    IF v.kind = "lit" THEN Lit(Take(v.s, n))
    ELSE [v EXCEPT !.len = IF n < v.len THEN n ELSE v.len]

(***************************************************************************)
(* The mnemonic codec (electrum's mnemonic module, a collaborator of the   *)
(* program): three words per chunk of ChunkHex hex digits, over a word     *)
(* list just large enough to encode every chunk value (1626 words for 8    *)
(* hex digits in electrum).  The model's words are single letters.         *)
(***************************************************************************)
ChunkHex == targetEntropyHex

WordListSize ==
    CHOOSE n \in 1..64 : Pow(n, 3) >= Pow(16, ChunkHex) /\ Pow(n - 1, 3) < Pow(16, ChunkHex)

MnemonicWords == [i \in 1..WordListSize |-> <<96 + i>>]

WordIndex(w) == CHOOSE i \in 1..WordListSize : MnemonicWords[i] = w

IsMnemonicWord(w) == \E i \in 1..WordListSize : MnemonicWords[i] = w

\* value of one hex character, either case
HexVal(c) == IF c >= 97 THEN c - 87 ELSE IF c >= 65 THEN c - 55 ELSE c - 48

RECURSIVE IntBase16(_)
IntBase16(s) ==
    IF Len(s) = 0 THEN 0
    ELSE 16 * IntBase16(DropLast(s)) + HexVal(s[Len(s)])

\* "%0wx" % n : lower-case, zero padded
FormatHexLowerWidth(n, w) == LowerCodes(FormatHexUpperWidth(n, w))

\* mnemonic.mn_decode(wlist) on a list of words of the word list
RECURSIVE MnDecodeWords(_)
MnDecodeWords(wlist) ==
    IF Len(wlist) < 3 THEN Empty
    ELSE LET n  == WordListSize
             w1 == WordIndex(wlist[1]) - 1
             w2 == WordIndex(wlist[2]) - 1
             w3 == WordIndex(wlist[3]) - 1
             x  == w1 + n * ((w2 - w1) % n) + n * n * ((w3 - w2) % n)
         IN  FormatHexLowerWidth(x, ChunkHex) \o MnDecodeWords(Drop(wlist, 3))

\* mnemonic.mn_encode(message) on literal hex characters
RECURSIVE MnEncodeCodes(_)
MnEncodeCodes(message) ==
    IF Len(message) < ChunkHex THEN Empty
    ELSE LET n  == WordListSize
             x  == IntBase16(Take(message, ChunkHex))
             w1 == x % n
             w2 == ((x \div n) + w1) % n
             w3 == ((x \div (n * n)) + w2) % n
         IN  <<MnemonicWords[w1 + 1], MnemonicWords[w2 + 1], MnemonicWords[w3 + 1]>>
                 \o MnEncodeCodes(Drop(message, ChunkHex))

\* mn_encode of a hex text value: the words of a literal; for a digest the
\* phrase of the whole chunks it covers, of which decoding gives them back
mn_encode(v) ==
    IF v.kind = "lit" THEN [kind |-> "words", w |-> MnEncodeCodes(v.s)]
    ELSE [kind |-> "phrase", of |-> TakeText(v, (v.len \div ChunkHex) * ChunkHex)]

mn_decode(p) == IF p.kind = "words" THEN Lit(MnDecodeWords(p.w)) ELSE p.of

\* str.split() : the maximal runs of non-space characters
RECURSIVE Split(_)
Split(s) ==
    IF Len(s) = 0 THEN Empty
    ELSE IF s[1] = 32 THEN Split(Drop(s, 1))
    ELSE LET n == CHOOSE k \in 1..Len(s) :
                      /\ \A j \in 1..k : s[j] # 32
                      /\ (k = Len(s) \/ s[k + 1] = 32)
         IN  <<Take(s, n)>> \o Split(Drop(s, n))

\* hashlib.sha256(running + ":" + char).hexdigest() : 64 lower-case hex
\* characters determined by the source text, which is the running value, the
\* separator ':' and the character
DigestHexLen == 64

Sha256Hex(running, char) ==
    [kind |-> "sha256", pre |-> running, sep |-> 58, ch |-> char, len |-> DigestHexLen,
     upper |-> FALSE]

\* a variant that hashes the last character of the password only
HashChain_LastOnly(running, password) ==
    IF Len(password) = 0 THEN running
    ELSE Sha256Hex(running, password[Len(password)])

\* the password transform of lines 667-675: the chain is restarted from the
\* lower-cased seed and run over every character of the password
RECURSIVE HashChain(_, _)
HashChain(running, password) ==
    IF Len(password) = 0 THEN running
    ELSE HashChain(Sha256Hex(running, password[1]), Drop(password, 1))


(***************************************************************************)
(* The state.                                                              *)
(***************************************************************************)
VARIABLES
    pc,                    \* position of the main program
    exitStatus,            \* -1 while running, then the process exit status
    printed,               \* the lines the last step printed to stdout
    status,                \* display.renderStatusStr
    walletFile,            \* whether a file exists at kTempWalletPath
    publicLog,             \* entries appended to the public log file
    results,               \* result files in the data folder: name -> content
    createPublicKey,
    signTransaction,
    unsignedTxnFileNames,
    randomPassword,
    seed_hex,
    mpk,
    addresses,
    rolls_arg,
    rolls_normalized,
    rolls_int,
    words_str,
    words_list,
    password_str,
    protected_seed_hex,
    idx,                   \* position of the signing loop in unsignedTxnFileNames
    txnData,
    outData,
    resultFileNames,
    fault,                 \* the exception propagating out of the signing loop
    session,               \* what the last electrum* call did to the external program
    steps,                 \* the electrum* calls made so far, in order
    randomPassword_alt,    \* the credential of a second run given the same inputs
    outData_alt,           \* ... the sign output that run gets
    publicLog_alt,         \* ... and the files that run writes
    results_alt,
    pwSeen,                \* password entry: one earlier buffer and its value, or {}
    lastKey                \* the key nextKey delivered or raised on last, 0 before the first

ctlVars == <<pc, exitStatus, printed, status>>

fsVars == <<walletFile, publicLog, results, publicLog_alt, results_alt>>

modeVars == <<createPublicKey, signTransaction, unsignedTxnFileNames>>

credVars == <<randomPassword, randomPassword_alt>>

keyVars == <<mpk, addresses>>

diceVars == <<rolls_arg, rolls_normalized, rolls_int>>

mnVars == <<words_str, words_list>>

pwVars == <<password_str, protected_seed_hex, pwSeen>>

loopVars == <<idx, txnData, outData, outData_alt, resultFileNames, fault>>

extVars == <<session, steps>>

vars == <<ctlVars, fsVars, modeVars, credVars, keyVars, seed_hex, diceVars, mnVars,
          pwVars, loopVars, extVars, lastKey>>

St(m) == [msg |-> m, n |-> 0]

StN(m, k) == [msg |-> m, n |-> k]

\* a parsed JSON value, as far as the program looks at it
NoData ==
    [valid |-> FALSE, isdict |-> FALSE, hashex |-> FALSE, complete |-> "absent", payload |-> "none"]

UnknownMpk == [kind |-> "unknown", seed |-> Lit(Empty)]

\* randomSeed(256): the value this run draws, and the one a second run draws
Credentials == {"cred1"}

AltCredential == "cred2"

(***************************************************************************)
(* Init: the process has started; nothing has run.  A wallet file left by  *)
(* an earlier run may or may not be present.                               *)
(***************************************************************************)
Init ==
    /\ pc = "boot"
    /\ exitStatus = -1
    /\ printed = Empty
    /\ status = St("")
    /\ walletFile \in BOOLEAN
    /\ publicLog = Empty
    /\ publicLog_alt = Empty
    /\ results = Empty
    /\ results_alt = Empty
    /\ createPublicKey = FALSE
    /\ signTransaction = FALSE
    /\ unsignedTxnFileNames = Empty
    /\ randomPassword = "unset"
    /\ randomPassword_alt = "unset"
    /\ seed_hex = Lit(Empty)
    /\ mpk = UnknownMpk
    /\ addresses = Empty
    /\ rolls_arg = Empty
    /\ rolls_normalized = Empty
    /\ rolls_int = 0
    /\ words_str = Empty
    /\ words_list = Empty
    /\ password_str = Empty
    /\ protected_seed_hex = Lit(Empty)
    /\ pwSeen = {}
    /\ idx = 0
    /\ txnData = NoData
    /\ outData = NoData
    /\ outData_alt = NoData
    /\ resultFileNames = Empty
    /\ fault = "none"
    /\ session = Empty
    /\ steps = Empty
    /\ lastKey = 0

(***************************************************************************)
(* Exits of the key-entry phase (lines 834-843).                           *)
(***************************************************************************)
\* "except Exception, e": print the message, sys.exit(1)
ExitOnException(message) ==
    /\ printed' = <<message>>
    /\ exitStatus' = 1
    /\ pc' = "exit"

\* a variant that ends the process as if nothing had happened
ExitOnInterrupt_Status0 ==
    /\ printed' = <<"Unknown Exception.">>
    /\ exitStatus' = 0
    /\ pc' = "exit"

\* the bare "except:" that catches KeyboardInterrupt raised by nextKey
ExitOnInterrupt ==
    /\ printed' = <<"Unknown Exception.">>
    /\ exitStatus' = 1
    /\ pc' = "exit"

(***************************************************************************)
(* Startup (lines 727-750).                                                *)
(***************************************************************************)
Boot ==
    /\ pc = "boot"
    /\ \E isdir \in BOOLEAN :
         IF ~isdir
         THEN \* raise Exception outside any handler: traceback, status 1
              /\ printed' = <<"Data folder must exist.">>
              /\ exitStatus' = 1
              /\ pc' = "exit"
              /\ UNCHANGED <<status, credVars>>
         ELSE /\ \E c \in Credentials :
                   /\ randomPassword' = c
                   /\ randomPassword_alt' = AltCredential
              /\ status' = St("press C to create new   press S to sign txn")
              /\ pc' = "mode"
              /\ UNCHANGED <<printed, exitStatus>>
    /\ UNCHANGED <<fsVars, modeVars, keyVars, seed_hex, diceVars, mnVars, pwVars, loopVars, extVars>>
    /\ UNCHANGED lastKey

(***************************************************************************)
(* The data folder as listed by os.listdir (line 767).                     *)
(***************************************************************************)
DirEntryPool ==
    { [name |-> kUnsignedTxnFileBase \o <<49>> \o kTxnFileExtension, isfile |-> TRUE],
      [name |-> kUnsignedTxnFileBase \o kTxnFileExtension, isfile |-> TRUE],
      [name |-> kUnsignedTxnFileBase \o <<51>> \o kTxnFileExtension, isfile |-> FALSE],
      [name |-> kUnsignedTxnFileBase \o <<49, 46, 116, 120, 116>>, isfile |-> TRUE],
      [name |-> kSignedTxnFile_success \o <<49>> \o kTxnFileExtension, isfile |-> TRUE] }

DirListings ==
    UNION { { l \in [1..n -> DirEntryPool] : \A i, j \in 1..n : i # j => l[i].name # l[j].name }
            : n \in 0..MaxDirEntries }

\* index of the last '.', 0 when there is none
LastDot(s) ==
    IF \E i \in DOMAIN s : s[i] = 46
    THEN CHOOSE i \in DOMAIN s : s[i] = 46 /\ \A j \in DOMAIN s : s[j] = 46 => j <= i
    ELSE 0

\* os.path.splitext: the extension starts at the last dot, unless only dots
\* precede it
SplitExt(s) ==
    LET d == LastDot(s)
    IN  IF d = 0 \/ \A j \in 1..(d - 1) : s[j] = 46
        THEN [basename |-> s, ext |-> Empty]
        ELSE [basename |-> Take(s, d - 1), ext |-> Drop(s, d - 1)]

\* lines 769-773
IsUnsignedTxnFile(e) ==
    /\ e.isfile
    /\ StartsWith(SplitExt(e.name).basename, kUnsignedTxnFileBase)
    /\ SplitExt(e.name).ext = kTxnFileExtension

RECURSIVE DiscoverUnsigned(_)
DiscoverUnsigned(listing) ==
    IF Len(listing) = 0 THEN Empty
    ELSE (IF IsUnsignedTxnFile(listing[1]) THEN <<listing[1].name>> ELSE Empty)
             \o DiscoverUnsigned(Drop(listing, 1))

(***************************************************************************)
(* Mode selection (lines 751-778).                                         *)
(***************************************************************************)
ModeKeys == {3, 67, 99, 115, 120}

EnterDice ==
    /\ rolls_arg' = Empty
    /\ rolls_normalized' = Empty
    /\ rolls_int' = 0
    /\ status' = St("type dice roll results  or RTN for mnemonics")
    /\ pc' = "dice"

EnterMnemonics ==
    /\ words_str' = Empty
    /\ words_list' = Empty
    /\ seed_hex' = Lit(Empty)
    /\ status' = St("type mnemonic words")
    /\ pc' = "mnemonic"

ModeKey ==
    /\ pc = "mode"
    /\ \E key \in ModeKeys :
         /\ lastKey' = key
         /\ IF key = 3
            THEN /\ ExitOnInterrupt
                 /\ UNCHANGED <<status, modeVars, seed_hex, diceVars, mnVars>>
            ELSE IF key \in {67, 99}
            THEN /\ createPublicKey' = TRUE
                 /\ EnterDice
                 /\ UNCHANGED <<exitStatus, printed, signTransaction, unsignedTxnFileNames,
                                seed_hex, mnVars>>
            ELSE IF key \in {83, 115}
            THEN /\ signTransaction' = TRUE
                 /\ \E listing \in DirListings :
                      /\ unsignedTxnFileNames' = DiscoverUnsigned(listing)
                      /\ IF Len(DiscoverUnsigned(listing)) < 1
                         THEN /\ ExitOnException("No unsigned transaction files found (unsigned.txn, etc.).")
                              /\ UNCHANGED <<status, seed_hex, mnVars>>
                         ELSE /\ EnterMnemonics
                              /\ UNCHANGED <<exitStatus, printed>>
                 /\ UNCHANGED <<createPublicKey, diceVars>>
            ELSE UNCHANGED <<ctlVars, modeVars, seed_hex, diceVars, mnVars>>
    /\ UNCHANGED <<fsVars, credVars, keyVars, pwVars, loopVars, extVars>>

(***************************************************************************)
(* getSeedFromDiceResults (lines 686-719).                                 *)
(***************************************************************************)
DiceKeys == {3, 13, 48, 55} \cup (49..54)

\* a variant that takes '0' for a roll
IsDiceRoll_FromZero(keyval) == keyval >= 48 /\ keyval <= 54

\* line 701, negated: the key is one of '1'..'6'
IsDiceRoll(keyval) == keyval >= 49 /\ keyval <= 54

\* one pass of the while loop: a key is read and handled
DiceKey ==
    /\ pc = "dice"
    /\ Len(rolls_arg) < minDiceRolls
    /\ \E key \in DiceKeys :
         /\ lastKey' = key
         /\ IF key = 3
            THEN /\ ExitOnInterrupt
                 /\ UNCHANGED <<status, seed_hex, diceVars, mnVars>>
            ELSE IF key = 13
            THEN \* return getSeedFromMnemonics(...): the locals of this function
                 \* are out of scope from here on
                 /\ EnterMnemonics
                 /\ rolls_arg' = Empty
                 /\ rolls_normalized' = Empty
                 /\ rolls_int' = 0
                 /\ UNCHANGED <<exitStatus, printed>>
            ELSE IF ~IsDiceRoll(key)
            THEN /\ status' = St("key out-of-range")
                 /\ UNCHANGED <<pc, exitStatus, printed, seed_hex, diceVars, mnVars>>
            ELSE /\ rolls_arg' = Append(rolls_arg, key)
                 /\ rolls_normalized' = Append(rolls_normalized, key - 1)
                 /\ rolls_int' = IntBase6(rolls_normalized') % Pow(2, targetEntropyBits)
                 /\ seed_hex' = Lit(FormatHexUpper(rolls_int'))
                 /\ status' = StN("remaining", minDiceRolls - Len(rolls_arg'))
                 /\ UNCHANGED <<pc, exitStatus, printed, mnVars>>
    /\ UNCHANGED <<fsVars, modeVars, credVars, keyVars, pwVars, loopVars, extVars>>

\* a variant that leaves the loop after the first roll
DiceComplete_Early ==
    /\ pc = "dice"
    /\ Len(rolls_arg) >= 1
    /\ seed_hex' = Lit(FormatHexUpperWidth(rolls_int, targetEntropyHex))
    /\ pc' = "encode"
    /\ UNCHANGED <<exitStatus, printed, status, fsVars, modeVars, credVars, keyVars, diceVars,
                   mnVars, pwVars, loopVars, extVars>>
    /\ UNCHANGED lastKey

\* a variant that asks for a password after the rolls
DiceComplete_ViaPassword ==
    /\ pc = "dice"
    /\ Len(rolls_arg) >= minDiceRolls
    /\ seed_hex' = Lit(FormatHexUpperWidth(rolls_int, targetEntropyHex))
    /\ password_str' = Empty
    /\ protected_seed_hex' = Lit(Empty)
    /\ pc' = "password"
    /\ UNCHANGED <<exitStatus, printed, status, fsVars, modeVars, credVars, keyVars, diceVars,
                   mnVars, pwSeen, loopVars, extVars>>
    /\ UNCHANGED lastKey

\* the loop is left: the hex string is formatted a final time (line 718)
DiceComplete ==
    /\ pc = "dice"
    /\ Len(rolls_arg) >= minDiceRolls
    /\ seed_hex' = Lit(FormatHexUpperWidth(rolls_int, targetEntropyHex))
    /\ pc' = "encode"
    /\ UNCHANGED <<exitStatus, printed, status, fsVars, modeVars, credVars, keyVars, diceVars,
                   mnVars, pwVars, loopVars, extVars>>
    /\ UNCHANGED lastKey

(***************************************************************************)
(* getSeedFromMnemonics, first loop: the words (lines 583-631).            *)
(***************************************************************************)
\* the first and the last word of the list, a capital, the separators,
\* backspace, a rejected key and the interrupt
MnemonicKeys == {3, 13, 32, 49, 65, 97, 96 + WordListSize, 127}

\* a variant that takes the digits '1'..'9' for the letters 'a'..'i'
NormalizeWordKey_Digits(key) ==
    IF key >= 65 /\ key <= 90 THEN key + 32
    ELSE IF key >= 49 /\ key <= 57 THEN key + 48
    ELSE IF key = 13 THEN 32
    ELSE key

\* lines 589-592
NormalizeWordKey(key) ==
    IF key >= 65 /\ key <= 90 THEN key + 32
    ELSE IF key = 13 THEN 32
    ELSE key

\* a variant that looks at the first word only
AllWordsGood_FirstOnly(wlist) == Len(wlist) = 0 \/ IsMnemonicWord(wlist[1])

AllWordsGood(wlist) == \A i \in DOMAIN wlist : IsMnemonicWord(wlist[i])

\* mn_decode raises ValueError for a word that is not in the list (caught at
\* line 621)
DecodeRaises(wlist) == \E i \in DOMAIN wlist : ~IsMnemonicWord(wlist[i])

\* a variant that is content with any word at all
PhraseComplete_AnyWord(wlist) == Len(wlist) >= 1

\* line 628
PhraseComplete(wlist) == Len(wlist) = kMnemonicWords

\* words_str[-1:] != " "
LastIsNotSpace(s) == Len(s) = 0 \/ s[Len(s)] # 32

\* the second loop is entered (lines 631-642)
EnterPassword ==
    /\ password_str' = Empty
    /\ protected_seed_hex' = Lit(Empty)
    /\ status' = St(" enter seed password      or RTN to continue")
    /\ pc' = "password"

\* pwSeen remembers one earlier moment of the password entry: the buffer and
\* the value that would have been returned then.  Once set it is kept, and
\* "again" tells that a later edit has come back to that buffer.
Remember(seen, buffer, value) ==
    IF seen # {}
    THEN {{ [r EXCEPT !.again = r.again \/ r.pw = buffer] : r \in seen }}
    ELSE {{}, {[pw |-> buffer, val |-> value, again |-> FALSE]}}


\* a variant that leaves out the test for an empty protected value
PasswordResult_Unguarded(seed, protected) == protected

\* lines 682-684: what the function returns if the password loop ends now
PasswordResult(seed, protected) == IF TextLen(protected) > 0 THEN protected ELSE seed

MnemonicKey ==
    /\ pc = "mnemonic"
    /\ \E key \in MnemonicKeys :
         /\ lastKey' = key
         /\ LET keyval == NormalizeWordKey(key)
            IN  IF key = 3
                THEN /\ ExitOnInterrupt
                     /\ UNCHANGED <<status, seed_hex, mnVars, pwVars>>
                ELSE IF keyval >= 97 /\ keyval <= 122
                THEN /\ Len(words_str) < MaxWordsLen
                     /\ words_str' = Append(words_str, keyval)
                     /\ status' = StN("remaining", kMnemonicWords - Len(words_list))
                     /\ UNCHANGED <<pc, exitStatus, printed, seed_hex, words_list, pwVars>>
                ELSE IF keyval # 32 /\ keyval # 127
                THEN /\ status' = St("key out-of-range")
                     /\ UNCHANGED <<pc, exitStatus, printed, seed_hex, mnVars, pwVars>>
                ELSE LET str1  == IF keyval = 127 /\ Len(words_str) > 0
                                  THEN DropLast(words_str) ELSE words_str
                         wlist == Split(str1)
                     IN  /\ words_list' = wlist
                         /\ IF ~AllWordsGood(wlist)
                            THEN /\ status' = St("not valid")
                                 /\ words_str' = str1
                                 /\ UNCHANGED <<pc, seed_hex, pwVars>>
                            ELSE IF DecodeRaises(wlist)
                            THEN /\ status' = St("invalid word entered")
                                 /\ words_str' = str1
                                 /\ UNCHANGED <<pc, seed_hex, pwVars>>
                            ELSE /\ seed_hex' = UpperText(Lit(MnDecodeWords(wlist)))
                                 /\ IF keyval = 32 /\ LastIsNotSpace(str1)
                                    THEN IF PhraseComplete(wlist)
                                         THEN /\ words_str' = str1
                                              /\ EnterPassword
                                              /\ pwSeen' \in Remember({}, Empty,
                                                                      PasswordResult(seed_hex', Lit(Empty)))
                                         ELSE /\ words_str' = Append(str1, 32)
                                              /\ status' = StN("remaining", kMnemonicWords - Len(wlist))
                                              /\ UNCHANGED <<pc, pwVars>>
                                    ELSE /\ words_str' = str1
                                         /\ status' = StN("remaining", kMnemonicWords - Len(wlist))
                                         /\ UNCHANGED <<pc, pwVars>>
                         /\ UNCHANGED <<exitStatus, printed>>
    /\ UNCHANGED <<fsVars, modeVars, credVars, keyVars, diceVars, loopVars, extVars>>

(***************************************************************************)
(* getSeedFromMnemonics, second loop: the password (lines 641-684).        *)
(***************************************************************************)

\* a variant that extends the chain from the value shown before, by the last
\* character only
ProtectSeed_Incremental(seed, password) ==
    IF Len(password) > 0
    THEN UpperText(TakeText(Sha256Hex(LowerText(PasswordResult(seed, protected_seed_hex)),
                                      password[Len(password)]),
                            targetEntropyHex))
    ELSE seed

\* lines 667-675: the protected seed for a password, computed from scratch
ProtectSeed(seed, password) ==
    IF Len(password) > 0
    THEN UpperText(TakeText(HashChain(LowerText(seed), password), targetEntropyHex))
    ELSE seed

PasswordKeys == {3, 13, 35, 66, 97, 127}

IsPasswordChar(keyval) ==
    \/ keyval >= 48 /\ keyval <= 57
    \/ keyval >= 65 /\ keyval <= 90
    \/ keyval >= 97 /\ keyval <= 122
    \/ keyval = 32

PasswordKey ==
    /\ pc = "password"
    /\ \E key \in PasswordKeys :
         /\ lastKey' = key
         /\ IF key = 3
            THEN /\ ExitOnInterrupt
                 /\ UNCHANGED <<status, seed_hex, pwVars>>
            ELSE IF ~(IsPasswordChar(key) \/ key \in {13, 127})
            THEN /\ status' = St("key out-of-range")
                 /\ UNCHANGED <<pc, exitStatus, printed, seed_hex, pwVars>>
            ELSE IF key = 13
            THEN \* break; lines 679-684
                 /\ seed_hex' = PasswordResult(seed_hex, protected_seed_hex)
                 /\ pc' = "encode"
                 /\ pwSeen' = {}
                 /\ UNCHANGED <<exitStatus, printed, status, password_str, protected_seed_hex>>
            ELSE /\ IsPasswordChar(key) => Len(password_str) < MaxPasswordLen
                 /\ password_str' = IF IsPasswordChar(key) THEN Append(password_str, key)
                                    ELSE IF Len(password_str) > 0 THEN DropLast(password_str)
                                    ELSE password_str
                 /\ protected_seed_hex' = ProtectSeed(seed_hex, password_str')
                 /\ pwSeen' \in Remember(pwSeen, password_str',
                                         PasswordResult(seed_hex, protected_seed_hex'))
                 /\ status' = St("   continue entering        or RTN to complete")
                 /\ UNCHANGED <<pc, exitStatus, printed, seed_hex>>
    /\ UNCHANGED <<fsVars, modeVars, credVars, keyVars, diceVars, mnVars, loopVars, extVars>>

(***************************************************************************)
(* Main program after the seed is entered (lines 780-832).                 *)
(***************************************************************************)
mpk_from_seed(seed) == [kind |-> "mpk", seed |-> seed]

create_new_address(m, i) == [mpk |-> m, n |-> i]

\* a variant that never finds a difference
SeedsDiffer_Never(seed, seedtest) == FALSE

\* line 802
SeedsDiffer(seed, seedtest) == seed # seedtest

MainEncode ==
    /\ pc = "encode"
    /\ LET lower         == LowerText(seed_hex)
           seed_mnemonic == mn_encode(lower)
           seed_hextest  == mn_decode(seed_mnemonic)
       IN  /\ seed_hex' = lower
           /\ IF SeedsDiffer(lower, seed_hextest)
              THEN /\ ExitOnException("Validation failed decode equivalence test.")
                   /\ UNCHANGED <<status, keyVars>>
              ELSE IF createPublicKey
              THEN /\ mpk' = mpk_from_seed(lower)
                   /\ addresses' = [i \in 1..kNumAddressesToShow |->
                                       create_new_address(mpk_from_seed(lower), i)]
                   /\ status' = St("finished")
                   /\ pc' = "finished"
                   /\ UNCHANGED <<exitStatus, printed>>
              ELSE /\ status' = St("restoring wallet")
                   /\ pc' = "restore"
                   /\ UNCHANGED <<exitStatus, printed, keyVars>>
    /\ UNCHANGED <<fsVars, modeVars, credVars, diceVars, mnVars, pwVars, loopVars, extVars>>
    /\ UNCHANGED lastKey

\* line 825: any key ends the display of the result
FinishedKey ==
    /\ pc = "finished"
    /\ \E key \in {3, 13} :
         /\ lastKey' = key
         /\ IF key = 3
            THEN ExitOnInterrupt
            ELSE /\ pc' = "log"
                 /\ UNCHANGED <<exitStatus, printed>>
    /\ UNCHANGED <<status, fsVars, modeVars, credVars, keyVars, seed_hex, diceVars, mnVars,
                   pwVars, loopVars, extVars>>

(***************************************************************************)
(* The public log (lines 847-856).                                         *)
(***************************************************************************)
PublicLogEntry(m, addrs) == [time |-> "strftime", mpk |-> m, addresses |-> addrs]

WritePublicLog ==
    /\ pc = "log"
    /\ \E opened \in BOOLEAN :
         IF opened
         THEN /\ publicLog' = Append(publicLog, PublicLogEntry(mpk, addresses))
              /\ publicLog_alt' = Append(publicLog_alt, PublicLogEntry(mpk, addresses))
              /\ printed' = <<"Public Key and Addresses logged to:">>
              /\ exitStatus' = 0
         ELSE \* IOError outside any handler
              /\ printed' = <<"IOError">>
              /\ exitStatus' = 1
              /\ UNCHANGED <<publicLog, publicLog_alt>>
    /\ pc' = "exit"
    /\ UNCHANGED <<status, walletFile, results, results_alt, modeVars, credVars, keyVars,
                   seed_hex, diceVars, mnVars, pwVars, loopVars, extVars>>
    /\ UNCHANGED lastKey

(***************************************************************************)
(* Sessions with the external program (pexpect).  An event records one     *)
(* call on a child; "end" is the end of the program's session with the     *)
(* child: close() returned or raised, or the handler was entered, and the  *)
(* function returns without using the child again.                         *)
(***************************************************************************)
Ev(ev, cmd, pat, sent) == [ev |-> ev, cmd |-> cmd, pat |-> pat, sent |-> sent]

Spawn(cmd) == Ev("spawn", cmd, "", "")

SpawnFailed(cmd) == Ev("spawn_failed", cmd, "", "")

Expect(cmd, pat) == Ev("expect", cmd, pat, "")

ExpectFailed(cmd, pat) == Ev("expect_failed", cmd, pat, "")

SendLine(cmd, data) == Ev("sendline", cmd, "", data)

Close(cmd) == Ev("close", cmd, "", "")

CloseFailed(cmd) == Ev("close_failed", cmd, "", "")

End(cmd) == Ev("end", cmd, "", "")


\* a variant in which a child whose close() failed is still running when the
\* next one is spawned
SpawnAndClose_Unreaped(cmd, launched, closed) ==
    IF ~launched THEN <<SpawnFailed(cmd)>>
    ELSE IF ~closed THEN <<Spawn(cmd), CloseFailed(cmd)>>
    ELSE <<Spawn(cmd), Close(cmd), End(cmd)>>

\* spawn; close(False): the whole session of a command that is not talked to
SpawnAndClose(cmd, launched, closed) ==
    IF ~launched THEN <<SpawnFailed(cmd)>>
    ELSE IF ~closed THEN <<Spawn(cmd), CloseFailed(cmd), End(cmd)>>
    ELSE <<Spawn(cmd), Close(cmd), End(cmd)>>

(***************************************************************************)
(* electrumRestore (lines 208-244).                                        *)
(***************************************************************************)
RestoreStages ==
    {"launch_failed", "no_password_prompt", "no_confirm_prompt", "no_eof", "close_failed",
     "exit_nonzero", "complete"}

\* the session, as far as it gets
electrumRestore(cred, stage) ==
    LET c == "restore"
        tail3 == IF stage = "no_eof" THEN <<ExpectFailed(c, "EOF"), End(c)>>
                 ELSE IF stage = "close_failed" THEN <<Expect(c, "EOF"), CloseFailed(c), End(c)>>
                 ELSE <<Expect(c, "EOF"), Close(c), End(c)>>
        tail2 == IF cred = "none" THEN <<SendLine(c, "")>> \o tail3
                 ELSE IF stage = "no_confirm_prompt"
                 THEN <<SendLine(c, cred), ExpectFailed(c, "confirm"), End(c)>>
                 ELSE <<SendLine(c, cred), Expect(c, "confirm"), SendLine(c, cred)>> \o tail3
    IN  IF stage = "launch_failed" THEN <<SpawnFailed(c)>>
        ELSE IF stage = "no_password_prompt"
        THEN <<Spawn(c), ExpectFailed(c, "password"), End(c)>>
        ELSE <<Spawn(c), Expect(c, "password")>> \o tail2

electrumRestorePrints(stage) ==
    (IF stage = "launch_failed" THEN Empty ELSE <<". restoring wallet">>)
        \o (IF stage = "complete" THEN <<". restore complete">>
            ELSE IF stage = "exit_nonzero" THEN <<". restore failed">>
            ELSE Empty)

\* a variant that leaves a file found at the wallet path in place
RestoreRemoveStale_Keep ==
    /\ pc = "restore"
    /\ printed' = <<"Restoring and Signing">>
    /\ pc' = "restoring"
    /\ UNCHANGED <<exitStatus, status, fsVars, modeVars,
                   credVars, keyVars, seed_hex, diceVars, mnVars, pwVars, loopVars, extVars>>
    /\ UNCHANGED lastKey

\* lines 214-215, inside the try of electrumRestore
RestoreRemoveStale ==
    /\ pc = "restore"
    /\ walletFile' = FALSE
    /\ printed' = <<"Restoring and Signing">>
    /\ pc' = "restoring"
    /\ UNCHANGED <<exitStatus, status, publicLog, results, publicLog_alt, results_alt, modeVars,
                   credVars, keyVars, seed_hex, diceVars, mnVars, pwVars, loopVars, extVars>>
    /\ UNCHANGED lastKey

RestoreSession ==
    /\ pc = "restoring"
    /\ \E stage \in RestoreStages :
         /\ session' = electrumRestore(randomPassword, stage)
         /\ printed' = electrumRestorePrints(stage)
         /\ \E created \in BOOLEAN :
              /\ stage = "complete" => created
              /\ stage \in {"launch_failed", "no_password_prompt", "no_confirm_prompt"} => ~created
              /\ walletFile' = created
    /\ steps' = Append(steps, [step |-> "restore", file |-> Empty])
    /\ pc' = "start"
    /\ UNCHANGED <<exitStatus, status, publicLog, results, publicLog_alt, results_alt, modeVars,
                   credVars, keyVars, seed_hex, diceVars, mnVars, pwVars, loopVars>>
    /\ UNCHANGED lastKey

(***************************************************************************)
(* electrumStart (lines 246-283).                                          *)
(***************************************************************************)
StartStages ==
    {"daemon_launch_failed", "daemon_close_failed", "load_launch_failed", "load_close_failed",
     "complete"}

\* a variant that answers a password prompt when it loads the wallet
electrumStart_WithPassword(cred, stage) ==
    IF stage = "daemon_launch_failed" THEN SpawnAndClose("daemon_start", FALSE, FALSE)
    ELSE IF stage = "daemon_close_failed" THEN SpawnAndClose("daemon_start", TRUE, FALSE)
    ELSE IF stage = "complete" /\ cred # "none"
    THEN SpawnAndClose("daemon_start", TRUE, TRUE)
             \o <<Spawn("load_wallet"), Expect("load_wallet", "password"),
                  SendLine("load_wallet", cred), Close("load_wallet"), End("load_wallet")>>
    ELSE SpawnAndClose("daemon_start", TRUE, TRUE)
             \o SpawnAndClose("load_wallet", stage # "load_launch_failed", stage = "complete")

electrumStart(cred, stage) ==
    IF stage = "daemon_launch_failed" THEN SpawnAndClose("daemon_start", FALSE, FALSE)
    ELSE IF stage = "daemon_close_failed" THEN SpawnAndClose("daemon_start", TRUE, FALSE)
    ELSE SpawnAndClose("daemon_start", TRUE, TRUE)
             \o SpawnAndClose("load_wallet", stage # "load_launch_failed", stage = "complete")

StartDaemon ==
    /\ pc = "start"
    /\ \E stage \in StartStages :
         /\ session' = electrumStart(randomPassword, stage)
         /\ printed' = IF stage \in {"load_close_failed", "complete"}
                       THEN <<". loading wallet">> ELSE Empty
    /\ steps' = Append(steps, [step |-> "start", file |-> Empty])
    /\ idx' = 1
    /\ resultFileNames' = Empty
    /\ pc' = "loop"
    /\ UNCHANGED <<exitStatus, status, fsVars, modeVars, credVars, keyVars, seed_hex, diceVars,
                   mnVars, pwVars, txnData, outData, outData_alt, fault>>
    /\ UNCHANGED lastKey

(***************************************************************************)
(* The signing loop (lines 863-877) and electrumSignRaw (lines 309-343).   *)
(***************************************************************************)
Json(isdict, hashex, complete, payload) ==
    [valid |-> TRUE, isdict |-> isdict, hashex |-> hashex, complete |-> complete,
     payload |-> payload]

\* what an input file may hold: a record with the payload, a record without
\* it, JSON that is no record, and text that is no JSON
TxnContents ==
    { Json(TRUE, TRUE, "absent", "tx"), Json(TRUE, FALSE, "absent", "none"),
      Json(FALSE, FALSE, "absent", "none"), NoData }

\* what the sign command may print when it exits with status 0
SignOutputs ==
    { Json(TRUE, TRUE, "true", "signed"), Json(TRUE, TRUE, "false", "partial"),
      Json(TRUE, TRUE, "one", "signed"), Json(TRUE, FALSE, "absent", "none"),
      Json(FALSE, FALSE, "absent", "none") }

\* {'complete':False}
FailedResult == Json(TRUE, FALSE, "false", "none")

SignStages ==
    {"no_hex", "launch_failed", "no_password_prompt", "no_eof", "close_failed", "exit_nonzero",
     "bad_json", "complete"}

\* a variant that sends the password although the prompt did not come
electrumSignRawSession_Unprompted(cred, stage) ==
    LET c == "signtransaction"
        tail == IF stage = "no_eof" THEN <<ExpectFailed(c, "EOF"), End(c)>>
                ELSE IF stage = "close_failed" THEN <<Expect(c, "EOF"), CloseFailed(c), End(c)>>
                ELSE <<Expect(c, "EOF"), Close(c), End(c)>>
    IN  IF stage = "no_hex" THEN Empty
        ELSE IF stage = "launch_failed" THEN <<SpawnFailed(c)>>
        ELSE IF cred = "none" THEN <<Spawn(c)>> \o tail
        ELSE IF stage = "no_password_prompt"
        THEN <<Spawn(c), ExpectFailed(c, "password"), SendLine(c, cred), End(c)>>
        ELSE <<Spawn(c), Expect(c, "password"), SendLine(c, cred)>> \o tail

\* the session of electrumSignRaw, as far as it gets
electrumSignRawSession(cred, stage) ==
    LET c == "signtransaction"
        tail == IF stage = "no_eof" THEN <<ExpectFailed(c, "EOF"), End(c)>>
                ELSE IF stage = "close_failed" THEN <<Expect(c, "EOF"), CloseFailed(c), End(c)>>
                ELSE <<Expect(c, "EOF"), Close(c), End(c)>>
    IN  IF stage = "no_hex" THEN Empty
        ELSE IF stage = "launch_failed" THEN <<SpawnFailed(c)>>
        ELSE IF cred = "none" THEN <<Spawn(c)>> \o tail
        ELSE IF stage = "no_password_prompt"
        THEN <<Spawn(c), ExpectFailed(c, "password"), End(c)>>
        ELSE <<Spawn(c), Expect(c, "password"), SendLine(c, cred)>> \o tail


\* a variant that parses the output without looking at the exit status
electrumSignRaw_NoStatusCheck(cred, stage, output) ==
    IF stage \in {"complete", "exit_nonzero"} THEN output ELSE FailedResult

\* a variant that puts the password it used into the value it returns
electrumSignRaw_Leaks(cred, stage, output) ==
    IF stage = "complete" THEN [output EXCEPT !.payload = cred] ELSE FailedResult

\* the value electrumSignRaw returns
electrumSignRaw(cred, stage, output) == IF stage = "complete" THEN output ELSE FailedResult

electrumSignRawPrints(stage) ==
    (IF stage \in {"no_hex", "launch_failed"} THEN Empty ELSE <<". signing transaction">>)
        \o (IF stage = "complete" THEN <<". signing complete">>
            ELSE IF stage = "exit_nonzero" THEN <<". signing failed">>
            ELSE Empty)


\* a variant that leaves the input's suffix out of the name
ResultFileName_NoSuffix(fileName, out) ==
    (IF out.complete = "true" THEN kSignedTxnFile_success ELSE kSignedTxnFile_failure)
        \o kTxnFileExtension

\* a variant that marks the outcome after the input's base name
ResultFileName_Suffixed(fileName, out) ==
    SplitExt(fileName).basename
        \o (IF out.complete = "true" THEN kSignedTxnFile_success ELSE kSignedTxnFile_failure)
        \o kTxnFileExtension

\* lines 870-873
ResultFileName(fileName, out) ==
    (IF out.complete = "true" THEN kSignedTxnFile_success ELSE kSignedTxnFile_failure)
        \o Drop(SplitExt(fileName).basename, Len(kUnsignedTxnFileBase))
        \o kTxnFileExtension

\* open(path, 'w') and json.dump: the file of that name now holds the value
WriteFile(files, name, value) ==
    [n \in (DOMAIN files) \cup {name} |-> IF n = name THEN value ELSE files[n]]

\* lines 864-868: the next input file is opened and parsed
ReadTxn ==
    /\ pc = "loop"
    /\ idx <= Len(unsignedTxnFileNames)
    /\ \E content \in TxnContents :
         IF content.valid
         THEN /\ txnData' = content
              /\ pc' = "sign"
              /\ UNCHANGED fault
         ELSE /\ fault' = "ValueError"
              /\ pc' = "finally"
              /\ UNCHANGED txnData
    /\ printed' = Empty
    /\ UNCHANGED <<exitStatus, status, fsVars, modeVars, credVars, keyVars, seed_hex, diceVars,
                   mnVars, pwVars, idx, outData, outData_alt, resultFileNames, extVars>>
    /\ UNCHANGED lastKey

\* line 869
SignTxn ==
    /\ pc = "sign"
    /\ \E stage \in SignStages, output \in SignOutputs :
         /\ stage = "no_hex" <=> ~(txnData.isdict /\ txnData.hashex)
         /\ stage # "complete" => output = FailedResult \/ output = Json(TRUE, TRUE, "true", "signed")
         /\ session' = electrumSignRawSession(randomPassword, stage)
         /\ outData' = electrumSignRaw(randomPassword, stage, output)
         /\ outData_alt' = electrumSignRaw(randomPassword_alt, stage, output)
         /\ printed' = electrumSignRawPrints(stage)
    /\ steps' = Append(steps, [step |-> "sign", file |-> unsignedTxnFileNames[idx]])
    /\ pc' = "persist"
    /\ UNCHANGED <<exitStatus, status, fsVars, modeVars, credVars, keyVars, seed_hex, diceVars,
                   mnVars, pwVars, idx, txnData, resultFileNames, fault>>
    /\ UNCHANGED lastKey

\* lines 870-877
PersistResult ==
    /\ pc = "persist"
    /\ IF ~outData.isdict
       THEN \* outData.get raises AttributeError
            /\ fault' = "AttributeError"
            /\ pc' = "finally"
            /\ UNCHANGED <<results, results_alt, resultFileNames, idx>>
       ELSE \E written \in BOOLEAN :
              IF written
              THEN /\ results' = WriteFile(results, ResultFileName(unsignedTxnFileNames[idx], outData),
                                           outData)
                   /\ results_alt' = WriteFile(results_alt,
                                               ResultFileName(unsignedTxnFileNames[idx], outData_alt),
                                               outData_alt)
                   /\ resultFileNames' = Append(resultFileNames,
                                                ResultFileName(unsignedTxnFileNames[idx], outData))
                   /\ idx' = idx + 1
                   /\ pc' = "loop"
                   /\ UNCHANGED fault
              ELSE /\ fault' = "IOError"
                   /\ pc' = "finally"
                   /\ UNCHANGED <<results, results_alt, resultFileNames, idx>>
    /\ printed' = Empty
    /\ UNCHANGED <<exitStatus, status, walletFile, publicLog, publicLog_alt, modeVars, credVars,
                   keyVars, seed_hex, diceVars, mnVars, pwVars, txnData, outData, outData_alt,
                   extVars>>
    /\ UNCHANGED lastKey

(***************************************************************************)
(* electrumStop (lines 285-307) and the end of the run (lines 878-889).    *)
(***************************************************************************)
StopStages ==
    {"close_launch_failed", "close_close_failed", "stop_launch_failed", "stop_close_failed",
     "complete"}

electrumStop(stage) ==
    IF stage = "close_launch_failed" THEN SpawnAndClose("close_wallet", FALSE, FALSE)
    ELSE IF stage = "close_close_failed" THEN SpawnAndClose("close_wallet", TRUE, FALSE)
    ELSE SpawnAndClose("close_wallet", TRUE, TRUE)
             \o SpawnAndClose("daemon_stop", stage # "stop_launch_failed", stage = "complete")

StopDaemon ==
    /\ pc = "loop"
    /\ idx > Len(unsignedTxnFileNames)
    /\ \E stage \in StopStages :
         /\ session' = electrumStop(stage)
         /\ printed' = (IF stage = "close_launch_failed" THEN Empty ELSE <<". closing wallet">>)
                           \o <<"Results in">>
    /\ steps' = Append(steps, [step |-> "stop", file |-> Empty])
    /\ pc' = "finally"
    /\ UNCHANGED <<exitStatus, status, fsVars, modeVars, credVars, keyVars, seed_hex, diceVars,
                   mnVars, pwVars, loopVars>>
    /\ UNCHANGED lastKey


\* a variant that cleans up on the success path only
Finally_SuccessOnly ==
    /\ pc = "finally"
    /\ walletFile' = IF fault = "none" THEN FALSE ELSE walletFile
    /\ exitStatus' = IF fault = "none" THEN 0 ELSE 1
    /\ printed' = IF fault = "none" THEN Empty ELSE <<fault>>
    /\ pc' = "exit"
    /\ UNCHANGED <<status, publicLog, results, publicLog_alt, results_alt, modeVars, credVars,
                   keyVars, seed_hex, diceVars, mnVars, pwVars, loopVars, extVars>>
    /\ UNCHANGED lastKey

\* the finally clause (lines 883-889), then the process ends
Finally ==
    /\ pc = "finally"
    /\ walletFile' = FALSE
    /\ exitStatus' = IF fault = "none" THEN 0 ELSE 1
    /\ printed' = IF fault = "none" THEN Empty ELSE <<fault>>
    /\ pc' = "exit"
    /\ UNCHANGED <<status, publicLog, results, publicLog_alt, results_alt, modeVars, credVars,
                   keyVars, seed_hex, diceVars, mnVars, pwVars, loopVars, extVars>>
    /\ UNCHANGED lastKey

(***************************************************************************)
(* The program.                                                            *)
(***************************************************************************)
Next ==
    \/ Boot
    \/ ModeKey
    \/ DiceKey
    \/ DiceComplete
    \/ MnemonicKey
    \/ PasswordKey
    \/ MainEncode
    \/ FinishedKey
    \/ WritePublicLog
    \/ RestoreRemoveStale
    \/ RestoreSession
    \/ StartDaemon
    \/ ReadTxn
    \/ SignTxn
    \/ PersistResult
    \/ StopDaemon
    \/ Finally

Spec == Init /\ [][Next]_vars

(***************************************************************************)
(* Properties.                                                             *)
(***************************************************************************)
\* the process has ended
Exited == pc = "exit"

\* the run reached electrumRestore
RestoreEntered == pc \in {"restoring", "start", "loop", "sign", "persist", "finally"} \/ Len(steps) > 0

\* the signing loop was reached
BatchStarted == \E k \in DOMAIN steps : steps[k].step = "start"

HasLine(lines, line) == \E k \in DOMAIN lines : lines[k] = line

FilesOf(files) == DOMAIN files

\* C1: in a signing run that entered the restore step, no file exists at the
\* wallet path when the process exits, whether the run ended normally or
\* with a fault raised in the signing loop.
C1_ArtifactDeletedAfterRestore == (Exited /\ RestoreEntered) => ~walletFile

\* a run that ended with an unhandled fault after signing at least once
C1_Witness ==
    /\ Exited
    /\ fault = "IOError"
    /\ \E k \in DOMAIN steps : steps[k].step = "sign"

\* C2 (as claimed): after any run, in either mode and however it ends, no
\* file exists at the wallet path, whatever the file system held at start.
C2_NoArtifactAfterAnyRun == Exited => ~walletFile

\* the sign step of this transition did not end with a parsed output
SignFaulted == pc = "sign" /\ pc' = "persist" /\ ~HasLine(printed', ". signing complete")

\* the files signed so far, in order
SignedFiles == SelectSeq(steps, LAMBDA e : e.step = "sign")

C4_OneResultPerInput ==
    (Exited /\ BatchStarted) => Cardinality(FilesOf(results)) = Len(unsignedTxnFileNames)

\* the name a result must have: the prefix for its outcome, the input's name
\* without the unsigned prefix
ExpectedResultName(inputName, success) ==
    (IF success THEN kSignedTxnFile_success ELSE kSignedTxnFile_failure)
        \o SubSeq(inputName, Len(kUnsignedTxnFileBase) + 1, Len(inputName))

\* C5: the k-th result written is named with the success prefix exactly when
\* its content has the completion flag true, with the failure prefix
\* otherwise, followed by the input's suffix and extension; results have
\* distinct names, and a result once written is never changed by what
\* happens to another transaction.
C5_ResultNaming ==
    /\ [](/\ Len(resultFileNames) <= Len(unsignedTxnFileNames)
          /\ \A k \in DOMAIN resultFileNames :
               /\ resultFileNames[k] \in FilesOf(results)
               /\ resultFileNames[k] =
                      ExpectedResultName(unsignedTxnFileNames[k],
                                         results[resultFileNames[k]].complete = "true")
          /\ Cardinality(FilesOf(results)) = Len(resultFileNames))
    /\ [][\A n \in FilesOf(results) : n \in FilesOf(results') /\ results'[n] = results[n]]_vars

\* two results: the first a success, the second a failure
C5_Witness ==
    /\ Len(resultFileNames) = 2
    /\ StartsWith(resultFileNames[1], kSignedTxnFile_success)
    /\ StartsWith(resultFileNames[2], kSignedTxnFile_failure)
    /\ results[resultFileNames[1]].complete = "true"

\* the order in which a signing run calls the external program
ExpectedSteps ==
    <<[step |-> "restore", file |-> Empty], [step |-> "start", file |-> Empty]>>
        \o [k \in DOMAIN unsignedTxnFileNames |-> [step |-> "sign", file |-> unsignedTxnFileNames[k]]]
        \o <<[step |-> "stop", file |-> Empty]>>

\* the number of children of the events es[1..k] whose session has not ended
OpenSessions(es, k) ==
    Cardinality({i \in 1..k : es[i].ev = "spawn"}) - Cardinality({i \in 1..k : es[i].ev = "end"})

\* the commands launched, in order
Launched(es) == SelectSeq(es, LAMBDA e : e.ev \in {"spawn", "spawn_failed"})

IsPrefix(a, b) == Len(a) <= Len(b) /\ SubSeq(b, 1, Len(a)) = a

LaunchOrder(step) ==
    IF step = "restore" THEN <<"restore">>
    ELSE IF step = "start" THEN <<"daemon_start", "load_wallet">>
    ELSE IF step = "sign" THEN <<"signtransaction">>
    ELSE <<"close_wallet", "daemon_stop">>

\* C6: the calls are restore, start, one sign per discovered transaction in
\* discovery order, stop, each at most once and in this order; inside start
\* the daemon is started before the wallet is loaded and inside stop the
\* wallet is closed before the daemon is stopped; a child is only spawned
\* when no other child's session is open, and none is open between calls.
C6_StepOrder ==
    /\ IsPrefix(steps, ExpectedSteps)
    /\ \A k \in DOMAIN session : OpenSessions(session, k) \in {0, 1}
    /\ OpenSessions(session, Len(session)) = 0
    /\ Len(steps) > 0 =>
         IsPrefix([k \in DOMAIN Launched(session) |-> Launched(session)[k].cmd],
                  LaunchOrder(steps[Len(steps)].step))

\* a complete run over two transactions
C6_Witness ==
    /\ Exited
    /\ Len(unsignedTxnFileNames) = 2
    /\ steps = ExpectedSteps
    /\ Len(session) = 6

\* the credential is somewhere in a JSON value
CredentialInJson(cred, j) == j.payload = cred \/ j.complete = cred

\* C7: no result file and no entry of the public log holds the credential;
\* the files are those of a run that drew another credential and was given
\* the same inputs; and the credential goes to the external program only as
\* a line sent right after a matched prompt.
C7_CredentialConfined ==
    /\ \A n \in FilesOf(results) : ~CredentialInJson(randomPassword, results[n])
    /\ results = results_alt
    /\ publicLog = publicLog_alt
    /\ \A k \in DOMAIN publicLog : publicLog[k] = PublicLogEntry(mpk, addresses)
    /\ \A k \in DOMAIN session :
         /\ session[k].sent # "" =>
              /\ session[k].sent = randomPassword
              /\ session[k].ev = "sendline"
              /\ k > 1
              /\ session[k - 1].ev = "expect"
              /\ session[k - 1].pat \in {"password", "confirm"}
         /\ session[k].cmd # randomPassword
         /\ session[k].pat # randomPassword

\* a result was written after the credential was sent to the sign command
C7_Witness ==
    /\ pc = "loop"
    /\ Len(resultFileNames) = 1
    /\ results[resultFileNames[1]].complete = "true"
    /\ \E k \in DOMAIN session : session[k].sent = randomPassword

\* the value of the rolls as a base-6 number, first roll most significant
Base6Value(rolls) ==
    LET n == Len(rolls)
        F[k \in 0..n] == IF k = 0 THEN 0 ELSE F[k - 1] + (rolls[k] - 49) * Pow(6, n - k)
    IN  F[n]

\* the j-th of w upper-case hex digits of v
HexDigitAt(v, w, j) ==
    LET d == (v \div Pow(16, w - j)) % 16
    IN  IF d < 10 THEN 48 + d ELSE 65 + (d - 10)

\* C8: when dice entry completes after minDiceRolls accepted rolls, the seed
\* has exactly targetEntropyHex characters and is the fixed-width upper-case
\* hex of the rolls' base-6 value mod 2^targetEntropyBits.
C8_DiceSeed ==
    (pc = "encode" /\ Len(rolls_arg) = minDiceRolls) =>
        /\ seed_hex.kind = "lit"
        /\ Len(seed_hex.s) = targetEntropyHex
        /\ \A k \in DOMAIN rolls_arg : rolls_arg[k] \in 49..54
        /\ seed_hex.s = [j \in 1..targetEntropyHex |->
                            HexDigitAt(Base6Value(rolls_arg) % Pow(2, targetEntropyBits),
                                       targetEntropyHex, j)]

\* a completed dice entry whose seed starts with a zero digit
C8_Witness ==
    /\ pc = "encode"
    /\ Len(rolls_arg) = minDiceRolls
    /\ seed_hex.s[1] = 48
    /\ seed_hex.s[targetEntropyHex] # 48

\* C9: when the terminator is pressed with an empty password buffer, the
\* seed handed on is the seed that was entered.
C9_EmptyPasswordKeepsSeed ==
    [][(pc = "password" /\ pc' = "encode" /\ password_str = Empty) => seed_hex' = seed_hex]_vars

\* the terminator was pressed on a buffer emptied again with backspace
C9_Witness ==
    /\ pc = "encode"
    /\ Len(words_list) = kMnemonicWords
    /\ password_str = Empty
    /\ protected_seed_hex # Lit(Empty)

\* C10: whenever the password buffer is what it was at an earlier moment of
\* the entry, the value the terminator would finalize is what it was then.
C10_PasswordValueByBuffer ==
    pc = "password" =>
        \A r \in pwSeen : r.pw = password_str => r.val = PasswordResult(seed_hex, protected_seed_hex)

\* a non-empty buffer reached a second time, after other edits
C10_Witness ==
    /\ pc = "password"
    /\ \E r \in pwSeen : r.again /\ r.pw = password_str /\ Len(r.pw) > 0

\* h_n of the chain for a seed and a password c_1..c_n: h_0 is the lower-case
\* seed and h_k the digest of h_(k-1), ':' and c_k
ChainDigest(seed, p) ==
    LET h[k \in 0..Len(p)] ==
            IF k = 0 THEN LowerText(seed)
            ELSE [kind |-> "sha256", pre |-> h[k - 1], sep |-> 58, ch |-> p[k], len |-> 64,
                  upper |-> FALSE]
    IN  h[Len(p)]

\* C11: while the password is entered and the buffer c_1..c_n is not empty,
\* the protected seed is the upper-case of the first targetEntropyHex
\* characters of h_n, the chain of digests started from the lower-case seed.
C11_ProtectedSeedIsChain ==
    (pc = "password" /\ Len(password_str) > 0) =>
        protected_seed_hex =
            [ChainDigest(seed_hex, password_str) EXCEPT !.len = targetEntropyHex, !.upper = TRUE]

\* the seed of zero digits with the password "aB": the truncated digest of
\* (the digest of "00..0:a"), ':' and 'B'
C11_Witness ==
    /\ pc = "password"
    /\ seed_hex = Lit([i \in 1..targetEntropyHex |-> 48])
    /\ password_str = <<97, 66>>
    /\ protected_seed_hex.kind = "sha256"
    /\ protected_seed_hex.ch = 66
    /\ protected_seed_hex.pre.ch = 97
    /\ protected_seed_hex.pre.pre = Lit([i \in 1..targetEntropyHex |-> 48])
    /\ protected_seed_hex.len = targetEntropyHex

\* the step that ends mnemonic entry and opens the password step
MnemonicCompletes == pc = "mnemonic" /\ pc' = "password"

\* C12: mnemonic entry completes only on a terminator (the buffer is left as
\* it is and does not end with a separator) pressed while the buffer holds
\* exactly kMnemonicWords words, each of the word list; the seed handed on is
\* the upper-case decoding of exactly those words; and the password step is
\* never open with another number of words or an invalid word.
C12_MnemonicCompletion ==
    /\ [][MnemonicCompletes =>
            /\ words_str' = words_str
            /\ words_str[Len(words_str)] # 32
            /\ words_list' = Split(words_str)
            /\ Len(words_list') = kMnemonicWords
            /\ \A k \in DOMAIN words_list' :
                 \E i \in DOMAIN MnemonicWords : MnemonicWords[i] = words_list'[k]
            /\ seed_hex' = UpperText(mn_decode([kind |-> "words", w |-> words_list']))]_vars
    /\ [](pc = "password" =>
            /\ Len(words_list) = kMnemonicWords
            /\ \A k \in DOMAIN words_list :
                 \E i \in DOMAIN MnemonicWords : MnemonicWords[i] = words_list[k])

\* a phrase of the first and the last word of the list was completed
C12_Witness ==
    /\ pc = "password"
    /\ Len(words_list) = kMnemonicWords
    /\ words_list[1] = MnemonicWords[1]
    /\ words_list[kMnemonicWords] = MnemonicWords[WordListSize]
    /\ seed_hex = UpperText(Lit(MnDecodeWords(words_list)))

\* encoding the seed to words and decoding the words gives the seed back
RoundTrips(seed) == mn_decode(mn_encode(seed)) = seed

\* the run is past the round-trip check
PastValidation ==
    \/ pc \in {"finished", "log", "restore", "restoring", "start", "loop", "sign", "persist",
               "finally"}
    \/ mpk # UnknownMpk
    \/ addresses # Empty
    \/ publicLog # Empty
    \/ steps # Empty

\* C13: when the lower-case seed does not survive encoding and decoding, the
\* step of the check ends the run with status 1 and a message, deriving no
\* key, writing no file and launching nothing; and key derivation, the
\* public log and the restore step are only reached with a seed that
\* survived the check.
C13_RoundTripFatal ==
    /\ [][(pc = "encode" /\ ~RoundTrips(LowerText(seed_hex))) =>
            /\ pc' = "exit"
            /\ exitStatus' = 1
            /\ printed' = <<"Validation failed decode equivalence test.">>
            /\ UNCHANGED <<mpk, addresses, walletFile, publicLog, results, session, steps>>]_vars
    /\ [](printed = <<"Validation failed decode equivalence test.">> =>
            /\ pc = "exit"
            /\ exitStatus = 1
            /\ mpk = UnknownMpk
            /\ addresses = Empty
            /\ publicLog = Empty
            /\ results = Empty
            /\ session = Empty
            /\ steps = Empty)
    /\ [](PastValidation => RoundTrips(seed_hex) /\ seed_hex = LowerText(seed_hex))

\* a signing run ended by a phrase whose decoding has one digit too many
C13_Witness ==
    /\ pc = "exit"
    /\ signTransaction
    /\ printed = <<"Validation failed decode equivalence test.">>
    /\ TextLen(seed_hex) > targetEntropyHex

\* the run was ended by one of the two resource errors
ResourceError ==
    /\ pc = "exit"
    /\ printed \in { <<"Data folder must exist.">>,
                     <<"No unsigned transaction files found (unsigned.txn, etc.).">> }

\* C14 (as claimed): when a resource error ends the run, neither the
\* credential nor a seed has been generated.
C14_NoSecretBeforeResourceError ==
    ResourceError => (randomPassword = "unset" /\ seed_hex = Lit(Empty))

\* the messages of the failures of the entry phase
FailureMessages ==
    { <<"Data folder must exist.">>,
      <<"No unsigned transaction files found (unsigned.txn, etc.).">>,
      <<"Validation failed decode equivalence test.">>,
      <<"Unknown Exception.">> }

\* create mode wrote the log, or sign mode went through its batch, the stop
\* step and the cleanup
CompletedNormally ==
    \/ createPublicKey /\ printed = <<"Public Key and Addresses logged to:">> /\ Len(publicLog) = 1
    \/ /\ signTransaction
       /\ fault = "none"
       /\ Len(steps) = Len(unsignedTxnFileNames) + 3
       /\ steps[Len(steps)].step = "stop"
       /\ Len(resultFileNames) = Len(unsignedTxnFileNames)

\* C15: the process has an exit status exactly when it has ended; a run that
\* completed normally has status 0, and only such a run has; a run ended by
\* a missing data folder, by the lack of input files, by the round-trip
\* check or by an interrupt at a key read has printed its message and has
\* status 1.
C15_ExitStatus ==
    /\ (pc = "exit") <=> (exitStatus # -1)
    /\ pc = "exit" => exitStatus \in {0, 1}
    /\ (pc = "exit" /\ CompletedNormally) => exitStatus = 0
    /\ exitStatus = 0 => CompletedNormally
    /\ printed \in FailureMessages => (pc = "exit" /\ exitStatus = 1)

\* the user interrupted the password entry
C15_Witness ==
    /\ pc = "exit"
    /\ exitStatus = 1
    /\ printed = <<"Unknown Exception.">>
    /\ Len(password_str) > 0

\* C16 (as claimed): after every accepted roll of the dice entry the hex
\* value shown has exactly targetEntropyHex characters.
C16_DisplayedHexFixedWidth ==
    (pc = "dice" /\ Len(rolls_arg) > 0) => TextLen(seed_hex) = targetEntropyHex

\* every variable but the status line and the key just read
AllButStatus ==
    <<pc, exitStatus, printed, fsVars, modeVars, credVars, keyVars, seed_hex, diceVars, mnVars,
      pwVars, loopVars, extVars>>

\* the step appends one roll '1'..'6' to the rolls
RollAccepted == \E k \in 49..54 : rolls_arg' = Append(rolls_arg, k)

\* C17: a step of the dice entry that neither ends the entry (interrupt,
\* switch to mnemonic entry, completion) nor accepts a roll '1'..'6' is the
\* rejection of a key: it sets the status to "key out-of-range" and leaves
\* the rolls, the normalized digits, the value and the hex string, and
\* everything else, as they were.  Only the characters '1'..'6' ever get
\* into the rolls.
C17_RejectedDiceKey ==
    /\ [][(pc = "dice" /\ pc' = "dice" /\ ~RollAccepted) =>
            /\ status' = St("key out-of-range")
            /\ UNCHANGED AllButStatus]_vars
    /\ [](/\ \A k \in DOMAIN rolls_arg : rolls_arg[k] \in 49..54
          /\ Len(rolls_normalized) = Len(rolls_arg)
          /\ \A k \in DOMAIN rolls_arg : rolls_normalized[k] = rolls_arg[k] - 1)

\* a key was rejected after two rolls
C17_Witness ==
    /\ pc = "dice"
    /\ status = St("key out-of-range")
    /\ Len(rolls_arg) = 2
    /\ seed_hex = Lit(FormatHexUpper(rolls_int))

\* the variables of the seed entry as a fresh mnemonic entry finds them
FreshMnemonicEntry ==
    /\ seed_hex = Lit(Empty)
    /\ words_str = Empty
    /\ words_list = Empty
    /\ rolls_arg = Empty
    /\ rolls_normalized = Empty
    /\ rolls_int = 0
    /\ password_str = Empty
    /\ protected_seed_hex = Lit(Empty)
    /\ pwSeen = {}

\* C18: a step of the dice entry keeps the entry going, ends the process on
\* an interrupt, emits the seed or switches to mnemonic entry.  The seed is
\* emitted only with exactly minDiceRolls accepted rolls, and the rolls
\* never exceed minDiceRolls.  The switch happens only below the threshold,
\* and it starts the mnemonic entry from the same fresh state whatever rolls
\* were entered, so nothing that follows depends on them.
C18_DiceOutcomes ==
    /\ [][pc = "dice" => pc' \in {"dice", "exit", "encode", "mnemonic"}]_vars
    /\ [][(pc = "dice" /\ pc' = "encode") =>
            /\ Len(rolls_arg) = minDiceRolls
            /\ UNCHANGED diceVars
            /\ createPublicKey]_vars
    /\ [][(pc = "dice" /\ pc' = "mnemonic") =>
            /\ Len(rolls_arg) < minDiceRolls
            /\ FreshMnemonicEntry'
            /\ status' = St("type mnemonic words")
            /\ UNCHANGED <<exitStatus, printed, fsVars, modeVars, credVars, keyVars, loopVars,
                           extVars>>]_vars
    /\ [](Len(rolls_arg) <= minDiceRolls)
    /\ []((pc = "dice" /\ Len(rolls_arg) = minDiceRolls) => ~ENABLED DiceKey)

\* create mode after the switch: mnemonic entry starts fresh
C18_Witness ==
    /\ createPublicKey
    /\ pc = "mnemonic"
    /\ FreshMnemonicEntry
    /\ status = St("type mnemonic words")

\* C19: the password step is opened from mnemonic entry and from nowhere
\* else, and mnemonic entry is left (but for an interrupt) into the password
\* step only; a seed completed from dice rolls is handed to the encoding as
\* the fixed-width hex of the rolls' value, with no password prompt shown and
\* no password variable touched; the encoding is reached from completed
\* dice entry and from the password step only.
C19_PasswordOnlyAfterMnemonic ==
    /\ [][(pc' = "password" /\ pc # "password") => pc = "mnemonic"]_vars
    /\ [][pc = "mnemonic" => pc' \in {"mnemonic", "password", "exit"}]_vars
    /\ [][(pc' = "encode" /\ pc # "encode") => pc \in {"dice", "password"}]_vars
    /\ [][(pc = "dice" /\ pc' = "encode") =>
            /\ seed_hex' = Lit(PadZeros(FormatHexUpper(rolls_int), targetEntropyHex))
            /\ password_str' = Empty
            /\ protected_seed_hex' = Lit(Empty)
            /\ UNCHANGED <<status, pwVars, mnVars>>]_vars
    /\ [](pc = "password" => (Len(words_list) = kMnemonicWords /\ rolls_arg = Empty))
    /\ []((pc = "encode" /\ Len(rolls_arg) = 0) => Len(words_list) = kMnemonicWords)

\* a seed of dice rolls at the encoding: no password was asked for
C19_Witness ==
    /\ pc = "encode"
    /\ createPublicKey
    /\ Len(rolls_arg) = minDiceRolls
    /\ status = StN("remaining", 0)
    /\ password_str = Empty
    /\ protected_seed_hex = Lit(Empty)
    /\ words_list = Empty

\* mnemonic entry is going on and the buffer holds a word that is not in the
\* word list
InvalidBuffer ==
    /\ pc = "mnemonic"
    /\ LET ws == Split(words_str)
       IN  \E k \in DOMAIN ws : \A i \in DOMAIN MnemonicWords : MnemonicWords[i] # ws[k]

\* with an invalid word in the buffer (which is then not empty), the step of
\* a terminator is the one that keeps entry going and the buffer as it is
\* without rejecting the key
TerminatorOnInvalid ==
    /\ InvalidBuffer
    /\ pc' = "mnemonic"
    /\ words_str' = words_str
    /\ status' # St("key out-of-range")

\* C20: while the buffer holds a word that is not in the word list, no step
\* completes the entry and none ends the run but an interrupt; a terminator
\* keeps the buffer exactly as it was, shows the status "not valid" and
\* leaves the seed alone; and the only changes of the buffer are those of
\* the user's editing: one letter appended or the last character removed.
C20_InvalidWordRecoverable ==
    /\ [][InvalidBuffer =>
            /\ pc' \in {"mnemonic", "exit"}
            /\ pc' = "exit" => printed' = <<"Unknown Exception.">>
            /\ \/ words_str' = words_str
               \/ words_str' = DropLast(words_str)
               \/ \E c \in 97..122 : words_str' = Append(words_str, c)]_vars
    /\ [][TerminatorOnInvalid =>
            /\ status' = St("not valid")
            /\ words_list' = Split(words_str)
            /\ UNCHANGED <<exitStatus, printed, seed_hex, pwVars>>]_vars

\* a terminator was pressed after the invalid second word "aa"
C20_Witness ==
    /\ pc = "mnemonic"
    /\ status = St("not valid")
    /\ words_str = <<97, 32, 97, 97>>
    /\ words_list = <<<<97>>, <<97, 97>>>>

\* the keys of the word loop that are not rejected, as the claim lists them
\* and as the loop takes them (an upper-case letter is taken as its
\* lower-case letter)
WordKeysClaimed == (97..122) \cup {32, 127, 13}

WordKeysTaken == (65..90) \cup (97..122) \cup {32, 127, 13}

PasswordKeysTaken == (48..57) \cup (65..90) \cup (97..122) \cup {32, 127, 13}

\* C21 (as claimed): in mnemonic entry a key other than a lower-case letter,
\* space, backspace or return leaves the buffer, the word list and the seed
\* unchanged; in password entry a key other than a letter, a digit, space,
\* backspace or return leaves the password and the protected seed unchanged.
C21_RejectedKeysAsClaimed ==
    [][/\ (pc = "mnemonic" /\ lastKey' \notin WordKeysClaimed) =>
             UNCHANGED <<words_str, words_list, seed_hex>>
       /\ (pc = "password" /\ lastKey' \notin PasswordKeysTaken) =>
             UNCHANGED <<password_str, protected_seed_hex>>]_vars

\* C21 (amended): the same with the letters of either case among the keys
\* the word loop accepts.  A rejected key, unless it is the interrupt, also
\* keeps the entry going and shows "key out-of-range".
C21_RejectedKeys ==
    [][/\ (pc = "mnemonic" /\ lastKey' \notin WordKeysTaken) =>
             /\ UNCHANGED <<words_str, words_list, seed_hex, pwVars>>
             /\ lastKey' # 3 => (pc' = pc /\ status' = St("key out-of-range"))
       /\ (pc = "password" /\ lastKey' \notin PasswordKeysTaken) =>
             /\ UNCHANGED <<password_str, protected_seed_hex, seed_hex, mnVars>>
             /\ lastKey' # 3 => (pc' = pc /\ status' = St("key out-of-range"))]_vars

\* a digit was rejected while a word was being typed
C21_Witness ==
    /\ pc = "mnemonic"
    /\ lastKey = 49
    /\ status = St("key out-of-range")
    /\ Len(words_str) = 2
    /\ words_list = <<>>

\* the restore step has just returned
RestoreReturned == pc = "start" /\ Len(steps) = 1 /\ steps[1].step = "restore"

\* a prompt or the end of output awaited in the last session did not come
\* (no match, or the timeout ran out)
PromptMissed == \E k \in DOMAIN session : session[k].ev = "expect_failed"

\* C22 (as claimed): every way the restore can fail is logged as
\* "restore failed": when the restore step has returned after a prompt was
\* not matched or a wait timed out, the line ". restore failed" was printed.
C22_RestoreFailureLogged ==
    (RestoreReturned /\ PromptMissed) => HasLine(printed, ". restore failed")

\* the lines sent in a session, in order
SentLines(es) == SelectSeq(es, LAMBDA e : e.ev = "sendline")

\* the prompts matched in a session, in order
MatchedPrompts(es) ==
    SelectSeq(es, LAMBDA e : e.ev = "expect" /\ e.pat \in {"password", "confirm"})

\* every line sent in the session answers the prompt matched just before it,
\* and every matched prompt is answered
RepliesOnly(es) ==
    /\ \A k \in DOMAIN es :
         es[k].ev = "sendline" =>
            /\ k > 1
            /\ es[k - 1].ev = "expect"
            /\ es[k - 1].pat \in {"password", "confirm"}
            /\ es[k - 1].cmd = es[k].cmd
    /\ \A k \in DOMAIN es :
         (es[k].ev = "expect" /\ es[k].pat \in {"password", "confirm"}) =>
            /\ k < Len(es)
            /\ es[k + 1].ev = "sendline"

\* a restore given no credential answers the password prompt alone, with
\* an empty line
RestoreWithoutCredential ==
    \A stage \in RestoreStages :
       /\ RepliesOnly(electrumRestore("none", stage))
       /\ \A k \in DOMAIN SentLines(electrumRestore("none", stage)) :
             /\ k = 1
             /\ SentLines(electrumRestore("none", stage))[k].sent = ""

\* C23: in the session of any step a line is sent only in reply to the
\* prompt matched just before it, and it is the run's credential; restore
\* answers the password prompt and then the confirmation prompt with it (with
\* no credential, the password prompt alone, with an empty line); a sign
\* step answers the password prompt once; the credential does not change
\* between restore and the last sign step.
C23_CredentialRepliesToPrompt ==
    /\ [](/\ RepliesOnly(session)
          /\ \A k \in DOMAIN SentLines(session) : SentLines(session)[k].sent = randomPassword
          /\ (Len(steps) > 0 /\ steps[Len(steps)].step = "restore") =>
                /\ [k \in DOMAIN MatchedPrompts(session) |-> MatchedPrompts(session)[k].pat]
                      \in {<<>>, <<"password">>, <<"password", "confirm">>}
                /\ \A k \in DOMAIN session : session[k].cmd = "restore"
          /\ (Len(steps) > 0 /\ steps[Len(steps)].step = "sign") =>
                /\ [k \in DOMAIN MatchedPrompts(session) |-> MatchedPrompts(session)[k].pat]
                      \in {<<>>, <<"password">>}
                /\ \A k \in DOMAIN session : session[k].cmd = "signtransaction"
          /\ Len(steps) > 0 => RestoreWithoutCredential)
    /\ [][(pc \in {"restore", "restoring", "start", "loop", "sign", "persist"}) =>
             randomPassword' = randomPassword]_vars

\* the second sign step of a run has just answered its password prompt
C23_Witness ==
    /\ pc = "persist"
    /\ idx = 2
    /\ Len(steps) = 4
    /\ Len(SentLines(session)) = 1
    /\ SentLines(session)[1].sent = randomPassword
    /\ session[2] = Expect("signtransaction", "password")
    /\ session[3] = SendLine("signtransaction", randomPassword)

\* a session in which nothing is awaited from the child and nothing is sent
\* to it
Silent(es) ==
    \A k \in DOMAIN es :
       /\ es[k].ev \notin {"expect", "expect_failed", "sendline"}
       /\ es[k].sent = ""
       /\ es[k].pat = ""

\* the sessions electrumStart can have are silent and do not depend on the
\* credential it is given
StartIgnoresCredential ==
    \A stage \in StartStages :
       /\ Silent(electrumStart("none", stage))
       /\ \A cred \in Credentials : electrumStart(cred, stage) = electrumStart("none", stage)

\* C24: the session of the start step launches the daemon start and the
\* wallet load and nothing else; it awaits no prompt and sends nothing, the
\* credential included, with or without a credential in use.
C24_StartSendsNothing ==
    /\ (Len(steps) > 0 /\ steps[Len(steps)].step = "start") =>
          /\ Silent(session)
          /\ \A k \in DOMAIN session : session[k].cmd \in {"daemon_start", "load_wallet"}
          /\ \E stage \in StartStages : session = electrumStart("none", stage)
          /\ randomPassword \in Credentials
          /\ StartIgnoresCredential

\* the start step has run both commands with a credential in use
C24_Witness ==
    /\ pc = "loop"
    /\ Len(steps) = 2
    /\ randomPassword # "none"
    /\ Len(session) = 6
    /\ session[4] = Spawn("load_wallet")
    /\ session[5] = Close("load_wallet")
    /\ HasLine(printed, ". loading wallet")

\* the restore command is launched in this step
RestoreLaunch ==
    /\ steps' # steps
    /\ \E k \in DOMAIN session' :
          session'[k].cmd = "restore" /\ session'[k].ev \in {"spawn", "spawn_failed"}

\* C25: the restore command is launched only from a state in which no file
\* exists at the wallet path, the removal of lines 214-215 having run in an
\* earlier step of the same run.
C25_StaleRemovedBeforeRestore ==
    /\ [](pc = "restoring" => (~walletFile /\ steps = <<>>))
    /\ [][RestoreLaunch => (pc = "restoring" /\ ~walletFile)]_vars

\* the restore command was launched and ran to its end
C25_Witness ==
    /\ RestoreReturned
    /\ session[1] = Spawn("restore")
    /\ HasLine(printed, ". restore complete")
    /\ walletFile

\* the stop step has just returned
StopReturned == pc = "finally" /\ Len(steps) > 0 /\ steps[Len(steps)].step = "stop"

\* a command of the last session could not be launched or closed
CommandFailed == \E k \in DOMAIN session : session[k].ev \in {"spawn_failed", "close_failed"}

\* C26 (as claimed): a failure while closing the wallet or stopping the
\* daemon is logged: when the stop step has returned after one of its
\* commands failed, the lines printed are not those of a stop without
\* failure.
C26_StopFailureLogged ==
    (StopReturned /\ CommandFailed) => printed # <<". closing wallet", "Results in">>

\* the daemon was stopped (electrumStop was called)
StopExecuted == \E k \in DOMAIN steps : steps[k].step = "stop"

\* C27 (as claimed): a signing run that executed the start step has executed
\* the stop step when the process exits, whether or not a fault was raised
\* in the signing loop.
C27_StopAfterStart == (Exited /\ BatchStarted) => StopExecuted

\* every value electrumSignRaw can return
SignResults == SignOutputs \cup {FailedResult}

\* the name would be taken for an unsigned transaction by the discovery
Discoverable(name) == IsUnsignedTxnFile([name |-> name, isfile |-> TRUE])

\* the names the result of an input can be written under
ResultNames(fileName) == { ResultFileName(fileName, o) : o \in SignResults }

\* the names of the data folder that the discovery selects
DiscoverableNames == { e.name : e \in { d \in DirEntryPool : IsUnsignedTxnFile(d) } }

\* over the names the discovery can select: two distinct inputs share no
\* result name, and no result name would itself be selected
NamingCollisionFree ==
    /\ \A f, g \in DiscoverableNames : f # g => ResultNames(f) \cap ResultNames(g) = {}
    /\ \A f \in DiscoverableNames : \A n \in ResultNames(f) : ~Discoverable(n)

\* C28: two distinct discovered inputs get distinct result names whatever
\* their outcomes, the names written so far are pairwise distinct, and no
\* result name, written or possible, would be discovered as an unsigned
\* transaction.
C28_ResultNamesDistinctAndUndiscoverable ==
    /\ unsignedTxnFileNames # Empty => NamingCollisionFree
    /\ \A i \in DOMAIN unsignedTxnFileNames : unsignedTxnFileNames[i] \in DiscoverableNames
    /\ \A i, j \in DOMAIN unsignedTxnFileNames :
          i # j => unsignedTxnFileNames[i] # unsignedTxnFileNames[j]
    /\ \A i, j \in DOMAIN resultFileNames : i # j => resultFileNames[i] # resultFileNames[j]
    /\ Cardinality(FilesOf(results)) = Len(resultFileNames)
    /\ \A n \in FilesOf(results) :
          /\ ~Discoverable(n)
          /\ \E i \in DOMAIN unsignedTxnFileNames : n \in ResultNames(unsignedTxnFileNames[i])

\* a batch of two inputs whose results are both written, one signed and one
\* not
C28_Witness ==
    /\ Exited
    /\ Len(unsignedTxnFileNames) = 2
    /\ Len(resultFileNames) = 2
    /\ \E i, j \in DOMAIN resultFileNames :
          /\ StartsWith(resultFileNames[i], kSignedTxnFile_success)
          /\ StartsWith(resultFileNames[j], kSignedTxnFile_failure)

\* The steps of the signing branch are straight-line code of one process:
\* once control is at one of them it is executed, and every wait on a child
\* is bounded by the timeout of 600 s given to pexpect.spawn.  The key
\* loops wait for the user and get no fairness.
SigningRunStep ==
    \/ RestoreRemoveStale
    \/ RestoreSession
    \/ StartDaemon
    \/ ReadTxn
    \/ SignTxn
    \/ PersistResult
    \/ StopDaemon
    \/ Finally

FairSpec == Spec /\ WF_vars(SigningRunStep)

\* C29 (as claimed): a signing run that has reached the restore step
\* eventually reaches the exit with the wallet file deleted, having passed
\* restore, start, one sign step per discovered transaction and stop, each
\* once and in this order.
C29_SigningRunPassesEveryStep ==
    (pc = "restore") ~> (Exited /\ ~walletFile /\ steps = ExpectedSteps)

\* what does hold under FairSpec: the run ends with the wallet file
\* deleted, and its steps are a prefix of the expected ones
SigningRunEnds ==
    (pc = "restore") ~> (Exited /\ ~walletFile /\ IsPrefix(steps, ExpectedSteps))

=============================================================================
